---------------------------- MODULE Spec2Model ----------------------------
(***************************************************************************)
(* World Systems Theory dashboard (ws_dashboard.py).                       *)
(*                                                                         *)
(* The state is the Streamlit session of one browser page: the table that  *)
(* load_data builds, the value st.cache_data keeps of it, the three        *)
(* sidebar checkboxes, and what the last run of main produced.  Every      *)
(* widget change re-runs main from the top, so each action is one whole    *)
(* script run.                                                             *)
(*                                                                         *)
(* A DataFrame is a sequence of rows, a row a function from column name to *)
(* value.  The float64 rank columns of pandas hold half-integers (the      *)
(* 'average' tie method); the model stores them in units of 1/Scale, so    *)
(* the stored number 3 is the rank 1.5.                                    *)
(***************************************************************************)
EXTENDS Integers, Sequences, FiniteSets, TLC

\* Model bounds: the generated datasets have 1..MaxN rows and raw metric
\* values in 0..MaxVal.
MaxN == 3
MaxVal == 1

\* Denominator of the fixed-point representation of the float64 rank columns.
Scale == 2

\* ---------------------------------------------------------------------
\* load_data: the literal table
\* ---------------------------------------------------------------------
country_column ==
  <<
    "Ukraine", "Israel", "Armenia", "Qatar", "Bahrain", "Saudi Arabia",
    "Greece", "Singapore", "Azerbaijan", "Russia", "South Korea", "Cyprus",
    "Kuwait", "Lebanon", "Jordan", "Brunei", "Taiwan", "Vietnam", "Oman",
    "Turkey", "Finland", "Lithuania", "Estonia", "Algeria", "Norway",
    "Morocco", "Egypt", "United States", "France", "Serbia", "Croatia",
    "Bulgaria", "Chile", "Poland", "Australia", "Portugal", "Pakistan",
    "Netherlands", "Czechia", "North Macedonia", "Slovakia", "Latvia",
    "Romania", "Sri Lanka", "Thailand", "Ecuador", "Myanmar",
    "United Kingdom", "Italy", "Sweden", "Germany", "Switzerland", "Denmark",
    "Spain", "China", "Hungary", "Bolivia", "Canada", "Japan", "Uruguay",
    "India", "Belgium", "Brazil", "Slovenia", "New Zealand", "Cambodia",
    "Austria", "Peru", "Indonesia", "Malaysia", "Colombia", "South Africa",
    "Argentina", "Philippines", "Tunisia", "Ireland", "Nigeria", "Kenya",
    "Mexico", "Ethiopia", "Bangladesh", "Ghana", "Uganda", "Tanzania",
    "Nepal", "Madagascar", "Mali", "Senegal", "Mozambique", "Zambia",
    "Zimbabwe", "Rwanda", "Congo", "Cameroon", "Ivory Coast", "Angola",
    "Paraguay", "Guatemala", "Honduras", "Dominican Republic", "Costa Rica",
    "Panama", "Venezuela", "Cuba", "Jamaica", "Trinidad and Tobago",
    "Iceland", "Luxembourg", "Malta", "Mauritius", "Namibia", "Botswana",
    "Mongolia"
  >>

iso_alpha_column ==
  <<
    "UKR", "ISR", "ARM", "QAT", "BHR", "SAU", "GRC", "SGP", "AZE", "RUS",
    "KOR", "CYP", "KWT", "LBN", "JOR", "BRN", "TWN", "VNM", "OMN", "TUR",
    "FIN", "LTU", "EST", "DZA", "NOR", "MAR", "EGY", "USA", "FRA", "SRB",
    "HRV", "BGR", "CHL", "POL", "AUS", "PRT", "PAK", "NLD", "CZE", "MKD",
    "SVK", "LVA", "ROU", "LKA", "THA", "ECU", "MMR", "GBR", "ITA", "SWE",
    "DEU", "CHE", "DNK", "ESP", "CHN", "HUN", "BOL", "CAN", "JPN", "URY",
    "IND", "BEL", "BRA", "SVN", "NZL", "KHM", "AUT", "PER", "IDN", "MYS",
    "COL", "ZAF", "ARG", "PHL", "TUN", "IRL", "NGA", "KEN", "MEX", "ETH",
    "BGD", "GHA", "UGA", "TZA", "NPL", "MDG", "MLI", "SEN", "MOZ", "ZMB",
    "ZWE", "RWA", "COG", "CMR", "CIV", "AGO", "PRY", "GTM", "HND", "DOM",
    "CRI", "PAN", "VEN", "CUB", "JAM", "TTO", "ISL", "LUX", "MLT", "MUS",
    "NAM", "BWA", "MNG"
  >>

gdp_per_capita_column ==
  <<
    5181, 54930, 7918, 87661, 32205, 32586, 22340, 84734, 7762, 14403, 33393,
    32807, 38124, 4136, 4946, 37166, 33907, 4316, 23223, 13110, 53983, 25064,
    28247, 5188, 87925, 3795, 4295, 80412, 44408, 9538, 20785, 13899, 16550,
    22162, 64674, 26512, 1568, 57025, 30031, 6939, 22525, 22264, 17647, 3354,
    7066, 6323, 1173, 48913, 37146, 58532, 54291, 99994, 68037, 33090, 12614,
    21909, 3600, 54866, 33950, 22948, 2731, 51767, 10413, 29533, 48826, 1758,
    56802, 7769, 4919, 12570, 7291, 6190, 13694, 3498, 4376, 106210, 2184,
    2099, 13245, 1020, 2688, 2445, 964, 1206, 1456, 519, 833, 1712, 539, 1430,
    1773, 2085, 2280, 1694, 2579, 3352, 5892, 5475, 3136, 10121, 13198, 18798,
    3897, 9500, 6047, 21037, 75180, 128259, 34127, 12297, 4907, 7738, 5228
  >>

gmi_score_column ==
  <<
    335, 257, 223, 220, 215, 213, 211, 210, 204, 204, 204, 204, 203, 200, 192,
    190, 182, 178, 174, 168, 162, 160, 160, 156, 154, 152, 149, 147, 144, 143,
    141, 139, 139, 138, 137, 137, 137, 137, 136, 135, 135, 134, 131, 130, 128,
    127, 127, 123, 123, 122, 121, 118, 118, 118, 117, 116, 114, 114, 114, 112,
    111, 111, 110, 110, 109, 109, 109, 107, 106, 106, 106, 103, 102, 102, 101,
    101, 100, 100, 99, 98, 96, 96, 94, 93, 92, 91, 91, 91, 90, 90, 88, 87, 87,
    87, 86, 86, 85, 85, 84, 83, 81, 80, 80, 78, 74, 73, 73, 73, 72, 70, 70,
    69, 68
  >>

gdi_score_column ==
  <<
    75, 107, 45, 70, 45, 128, 134, 65, 55, 230, 187, 45, 60, 50, 55, 40, 110,
    94, 55, 252, 90, 50, 45, 75, 91, 70, 85, 271, 249, 55, 60, 55, 121, 135,
    124, 127, 121, 149, 120, 40, 70, 50, 65, 45, 97, 55, 35, 225, 206, 102,
    217, 141, 90, 190, 274, 65, 45, 157, 251, 55, 194, 113, 205, 50, 65, 40,
    104, 75, 130, 106, 117, 114, 150, 94, 50, 98, 80, 55, 161, 55, 80, 45, 40,
    45, 45, 35, 40, 55, 40, 45, 40, 40, 40, 45, 45, 50, 45, 45, 40, 50, 55,
    60, 55, 60, 45, 40, 35, 45, 35, 40, 35, 35, 40
  >>

RawCols == {"country", "iso_alpha", "gdp_per_capita", "gmi_score", "gdi_score"}

\* pd.DataFrame(data) of the literal table
load_data ==
  [i \in 1..Len(iso_alpha_column) |->
     [country        |-> country_column[i],
      iso_alpha      |-> iso_alpha_column[i],
      gdp_per_capita |-> gdp_per_capita_column[i],
      gmi_score      |-> gmi_score_column[i],
      gdi_score      |-> gdi_score_column[i]]]

\* Tables of the same shape as load_data's: the first n identifiers and
\* names, with every choice of small non-negative metric values.
Datasets ==
  UNION {
    { [i \in 1..n |->
         [country        |-> country_column[i],
          iso_alpha      |-> iso_alpha_column[i],
          gdp_per_capita |-> g[i],
          gmi_score      |-> m[i],
          gdi_score      |-> d[i]]] :
      g \in [1..n -> 0..MaxVal], m \in [1..n -> 0..MaxVal],
      d \in [1..n -> 0..MaxVal] } : n \in 1..MaxN }

\* ---------------------------------------------------------------------
\* pandas primitives used by calculate_rankings
\* ---------------------------------------------------------------------
NoFrame == << >>

columns(df) == IF Len(df) = 0 THEN {} ELSE DOMAIN df[1]

column(df, name) == [i \in 1..Len(df) |-> df[i][name]]

\* df[name] = col : adds the column, or overwrites it if present
set_column(df, name, col) ==
  [i \in 1..Len(df) |-> (name :> col[i]) @@ df[i]]

\* Series.rank(method, ascending), in units of 1/Scale.  A value's position
\* is counted in the sorted order; a tie group occupies consecutive
\* positions and gets their mean ('average'), their lowest ('min'), or
\* each its own in order of appearance ('first').
before(col, i, ascending) ==
  Cardinality({j \in DOMAIN col :
                 IF ascending THEN col[j] < col[i] ELSE col[j] > col[i]})

tied(col, i) == Cardinality({j \in DOMAIN col : col[j] = col[i]})

rank_first(col, method, ascending) ==
  [i \in DOMAIN col |->
     Scale * (before(col, i, ascending) + 1
              + Cardinality({j \in DOMAIN col : j < i /\ col[j] = col[i]}))]

rank(col, method, ascending) ==
  [i \in DOMAIN col |->
     CASE method = "average" ->
            \* mean of positions before+1 .. before+tied
            (Scale * (2 * before(col, i, ascending) + tied(col, i) + 1)) \div 2
       [] method = "min" ->
            Scale * (before(col, i, ascending) + 1)
       [] method = "first" ->
            Scale * (before(col, i, ascending) + 1
                     + Cardinality({j \in DOMAIN col :
                                      j < i /\ col[j] = col[i]}))]

\* df[cols].sum(axis=1)
RECURSIVE sum_of(_, _)
sum_of(row, cols) ==
  IF cols = << >> THEN 0
  ELSE row[Head(cols)] + sum_of(row, Tail(cols))

sum_axis1(df, cols) == [i \in 1..Len(df) |-> sum_of(df[i], cols)]

\* ---------------------------------------------------------------------
\* calculate_rankings
\* ---------------------------------------------------------------------

\* selected_ranks, all three whatever the checkboxes say
selected_ranks_all(use_gdp, use_gmi, use_gdi) ==
  <<"gdp_rank", "gmi_rank", "gdi_rank">>

selected_ranks(use_gdp, use_gmi, use_gdi) ==
  (IF use_gdp THEN <<"gdp_rank">> ELSE << >>)
  \o (IF use_gmi THEN <<"gmi_rank">> ELSE << >>)
  \o (IF use_gdi THEN <<"gdi_rank">> ELSE << >>)

\* final rank with the tie method left at the pandas default
final_rank_series_default(composite) == rank(composite, "average", TRUE)

\* df['composite_rank_sum'].rank(method='min')
final_rank_series(composite) == rank(composite, "min", TRUE)

\* assign_category with tertile_size = n_countries // 3
assign_category_floor(final_rank, n_countries) ==
  IF final_rank <= Scale * (n_countries \div 3) THEN "Core"
  ELSE IF final_rank <= Scale * 2 * (n_countries \div 3) THEN "Semi-Periphery"
  ELSE "Periphery"

\* tertile_size = n_countries / 3 (true division); final_rank is in units of
\* 1/Scale, so rank <= tertile_size is 3 * final_rank <= Scale * n_countries.
assign_category(final_rank, n_countries) ==
  IF 3 * final_rank <= Scale * n_countries THEN "Core"
  ELSE IF 3 * final_rank <= 2 * Scale * n_countries THEN "Semi-Periphery"
  ELSE "Periphery"

\* calculate_rankings writing its columns into the frame it was given
caller_frame_aliased(df, annotated) == annotated

\* df = df.copy(): the columns are added to a copy, and the frame the
\* caller passed in is, after the call, what it was before.
caller_frame(df, annotated) == df

\* The call's outcome: ret the returned frame, raised the exception it ends
\* with ("none": it returns normally), st_error the messages it shows with
\* st.error, arg the caller's frame after the call.
calculate_rankings(df, use_gdp, use_gmi, use_gdi) ==
  LET df1 == set_column(df, "gdp_rank",
                        rank(column(df, "gdp_per_capita"), "average", FALSE))
      df2 == set_column(df1, "gmi_rank",
                        rank(column(df1, "gmi_score"), "average", FALSE))
      df3 == set_column(df2, "gdi_rank",
                        rank(column(df2, "gdi_score"), "average", FALSE))
      sel == selected_ranks(use_gdp, use_gmi, use_gdi)
      df4 == set_column(df3, "composite_rank_sum", sum_axis1(df3, sel))
      df5 == set_column(df4, "final_rank",
                        final_rank_series(column(df4, "composite_rank_sum")))
      n_countries == Len(df5)
      df6 == set_column(df5, "category",
                        [i \in 1..Len(df5) |->
                           assign_category(df5[i]["final_rank"], n_countries)])
  IN  IF sel = << >>
      THEN [ret      |-> df3,
            raised   |-> "none",
            st_error |-> <<"Please select at least one category!">>,
            arg      |-> caller_frame(df, df3)]
      ELSE [ret      |-> df6,
            raised   |-> "none",
            st_error |-> << >>,
            arg      |-> caller_frame(df, df6)]

\* ---------------------------------------------------------------------
\* main: one run of the script
\* ---------------------------------------------------------------------
VARIABLES
  data,        \* the table load_data's body builds
  cache,       \* st.cache_data's value of load_data(); NoFrame before the first call
  use_gdp, use_gmi, use_gdi,   \* the sidebar checkboxes
  df_ranked,   \* what calculate_rankings returned in the last run
  st_error,    \* the st.error messages of the last run
  exception,   \* the exception the last run ended with, "none" if it completed
  counts,      \* core_count, semi_count, periphery_count of the last run
  page         \* the page elements the last run rendered, in order

vars == <<data, cache, use_gdp, use_gmi, use_gdi, df_ranked, st_error,
          exception, counts, page>>

NoCounts == [Core |-> -1, SemiPeriphery |-> -1, Periphery |-> -1]

\* len(df_ranked[df_ranked['category'] == c])
category_count(df, c) ==
  Cardinality({i \in 1..Len(df) : df[i]["category"] = c})

Init ==
  /\ data \in Datasets \cup {load_data}
  /\ cache = NoFrame
  /\ use_gdp = TRUE
  /\ use_gmi = TRUE
  /\ use_gdi = TRUE
  /\ df_ranked = NoFrame
  /\ st_error = << >>
  /\ exception = "none"
  /\ counts = NoCounts
  /\ page = << >>

\* main() with the checkboxes reading g, m, d
main(g, m, d) ==
  \E r \in {calculate_rankings(IF cache = NoFrame THEN data ELSE cache,
                                 g, m, d)} :
      /\ use_gdp' = g
      /\ use_gmi' = m
      /\ use_gdi' = d
      /\ cache' = r.arg
      /\ data' = data
      /\ st_error' = r.st_error
      /\ IF r.raised # "none"
         THEN /\ df_ranked' = NoFrame
              /\ exception' = r.raised
              /\ counts' = NoCounts
              /\ page' = <<"header", "sidebar", "exception">>
         ELSE /\ df_ranked' = r.ret
              /\ IF "category" \in columns(r.ret)
                 THEN /\ exception' = "none"
                      /\ counts' =
                           [Core          |-> category_count(r.ret, "Core"),
                            SemiPeriphery |-> category_count(r.ret, "Semi-Periphery"),
                            Periphery     |-> category_count(r.ret, "Periphery")]
                      /\ page' = <<"header", "sidebar", "metric_boxes", "map",
                                   "box_plot", "scatter_plot", "table",
                                   "download_button", "about", "footer">>
                 ELSE \* df_ranked['category'] at the first metric box
                      /\ exception' = "KeyError"
                      /\ counts' = NoCounts
                      /\ page' = <<"header", "sidebar">> \o
                                 (IF r.st_error = << >> THEN << >> ELSE <<"error">>)
                                 \o <<"exception">>

\* The browser opens the page: the first run, checkboxes at their defaults.
FirstRun ==
  /\ page = << >>
  /\ main(TRUE, TRUE, TRUE)

ToggleGdp ==
  /\ page # << >>
  /\ main(~use_gdp, use_gmi, use_gdi)

ToggleGmi ==
  /\ page # << >>
  /\ main(use_gdp, ~use_gmi, use_gdi)

ToggleGdi ==
  /\ page # << >>
  /\ main(use_gdp, use_gmi, ~use_gdi)

Next == FirstRun \/ ToggleGdp \/ ToggleGmi \/ ToggleGdi

Spec == Init /\ [][Next]_vars

\* ---------------------------------------------------------------------
\* Properties
\* ---------------------------------------------------------------------
Ran == page # << >>

EmptySelection == ~use_gdp /\ ~use_gmi /\ ~use_gdi

N == Len(data)

Rows == 1..Len(df_ranked)

\* number of rows whose raw value in column name is greater than row i's
greater_in(name, i) ==
  Cardinality({j \in 1..N : data[j][name] > data[i][name]})

\* C1: a run with no metric selected ends with a ConfigurationError and
\* hands no frame, with or without rank columns, to the caller.
C1_EmptySelectionRaises ==
  (Ran /\ EmptySelection) =>
     /\ exception = "ConfigurationError"
     /\ df_ranked = NoFrame

\* C2: the rank of every active metric is the competition rank, descending:
\* one plus the number of rows with a strictly greater raw value.
C2_CompetitionRank ==
  (Ran /\ ~EmptySelection) =>
     \A i \in Rows :
        /\ use_gdp =>
             df_ranked[i]["gdp_rank"] = Scale * (1 + greater_in("gdp_per_capita", i))
        /\ use_gmi =>
             df_ranked[i]["gmi_rank"] = Scale * (1 + greater_in("gmi_score", i))
        /\ use_gdi =>
             df_ranked[i]["gdi_rank"] = Scale * (1 + greater_in("gdi_score", i))

\* C3: with a non-empty selection every row has exactly one category, fixed
\* by its final rank r and the row count N: Core iff 3r <= N, Semi-Periphery
\* iff N < 3r <= 2N, Periphery otherwise; and with nine rows, final ranks
\* 1-3 are Core, 4-6 Semi-Periphery, 7-9 Periphery.
C3_CategoryFromFinalRank ==
  /\ (Ran /\ ~EmptySelection) =>
        /\ Len(df_ranked) = N
        /\ \A i \in Rows :
             LET r == df_ranked[i]["final_rank"]
                 c == df_ranked[i]["category"]
             IN  /\ c \in {"Core", "Semi-Periphery", "Periphery"}
                 /\ (c = "Core") <=> (3 * r <= Scale * N)
                 /\ (c = "Semi-Periphery") <=>
                       (Scale * N < 3 * r /\ 3 * r <= 2 * Scale * N)
                 /\ (c = "Periphery") <=> (2 * Scale * N < 3 * r)
  /\ \A r \in 1..9 :
        assign_category(Scale * r, 9) =
           IF r <= 3 THEN "Core"
           ELSE IF r <= 6 THEN "Semi-Periphery" ELSE "Periphery"

\* all three categories occur in one classification
C3_Witness ==
  /\ Ran /\ ~EmptySelection
  /\ \A c \in {"Core", "Semi-Periphery", "Periphery"} :
        \E i \in Rows : df_ranked[i]["category"] = c

\* C4: composite_rank_sum is the sum of the row's ranks in the selected
\* metrics, and of those only.
C4_CompositeIsSumOfActiveRanks ==
  (Ran /\ ~EmptySelection) =>
     \A i \in Rows :
        df_ranked[i]["composite_rank_sum"] =
            (IF use_gdp THEN df_ranked[i]["gdp_rank"] ELSE 0)
          + (IF use_gmi THEN df_ranked[i]["gmi_rank"] ELSE 0)
          + (IF use_gdi THEN df_ranked[i]["gdi_rank"] ELSE 0)

\* one metric is off, the other two are summed
C4_Witness ==
  /\ Ran /\ use_gdp /\ ~use_gmi /\ use_gdi
  /\ Len(df_ranked) >= 2
  /\ \E i \in Rows :
        df_ranked[i]["composite_rank_sum"] =
           df_ranked[i]["gdp_rank"] + df_ranked[i]["gdi_rank"]

\* C5: final_rank is the ascending minimum rank of composite_rank_sum: one
\* plus the number of rows with a strictly smaller sum; equal sums share a
\* final rank and the smallest sum has final rank 1.
C5_FinalRankIsMinRank ==
  (Ran /\ ~EmptySelection) =>
     /\ \A i \in Rows :
          df_ranked[i]["final_rank"] =
             Scale * (1 + Cardinality({j \in Rows :
                          df_ranked[j]["composite_rank_sum"]
                            < df_ranked[i]["composite_rank_sum"]}))
     /\ \A i, j \in Rows :
          df_ranked[i]["composite_rank_sum"] = df_ranked[j]["composite_rank_sum"]
            => df_ranked[i]["final_rank"] = df_ranked[j]["final_rank"]
     /\ \E i \in Rows : df_ranked[i]["final_rank"] = Scale * 1

\* two rows tie on the composite sum, a third has a larger one
C5_Witness ==
  /\ Ran /\ ~EmptySelection
  /\ \E i, j, k \in Rows :
        /\ i # j
        /\ df_ranked[i]["composite_rank_sum"] = df_ranked[j]["composite_rank_sum"]
        /\ df_ranked[k]["composite_rank_sum"] > df_ranked[i]["composite_rank_sum"]

\* C6: the three categories are equal-sized by count: each holds N/3 rows,
\* rounded down or up when 3 does not divide N.
C6_EqualSizedTertiles ==
  (Ran /\ ~EmptySelection) =>
     \A c \in {"Core", "SemiPeriphery", "Periphery"} :
        /\ counts[c] >= N \div 3
        /\ counts[c] <= (N + 2) \div 3

\* C7: whatever selections were run, the frame load_data handed to
\* calculate_rankings is still the raw table: same rows, same five columns.
C7_RawDatasetUnchanged ==
  Ran =>
     /\ cache = data
     /\ \A i \in 1..Len(cache) : DOMAIN cache[i] = RawCols

\* several runs have happened, the last with nothing selected
C7_Witness ==
  /\ Ran /\ EmptySelection
  /\ columns(df_ranked) # RawCols
  /\ cache # NoFrame

\* C8: what a run returns is what a first call on the raw table returns
\* for the selection now in force, whatever was selected before.
C8_ResultDependsOnlyOnSelection ==
  Ran =>
     df_ranked = calculate_rankings(data, use_gdp, use_gmi, use_gdi).ret

\* a selection that takes two checkbox changes to reach
C8_Witness ==
  /\ Ran /\ ~use_gdp /\ ~use_gmi /\ use_gdi
  /\ "category" \in columns(df_ranked)
  /\ Len(df_ranked) >= 2

\* The reorderings of n rows: all of them for the generated tables, the
\* reversal and the rotation for a longer one.
Perms(n) ==
  IF n <= MaxN
  THEN {p \in [1..n -> 1..n] : \A i, j \in 1..n : i # j => p[i] # p[j]}
  ELSE {[i \in 1..n |-> n + 1 - i], [i \in 1..n |-> (i % n) + 1]}

Permute(df, p) == [i \in 1..Len(df) |-> df[p[i]]]

\* C9: reordering the rows of the table changes no row's ranks, composite
\* sum, final rank or category.
C9_OrderIndependent ==
  (Ran /\ ~EmptySelection) =>
     \A p \in Perms(N) :
        calculate_rankings(Permute(data, p), use_gdp, use_gmi, use_gdi).ret
          = Permute(df_ranked, p)

\* a table with a tie in a selected metric between rows that differ elsewhere
C9_Witness ==
  /\ Ran /\ use_gdp /\ ~EmptySelection
  /\ \E i, j \in Rows :
        /\ i < j
        /\ df_ranked[i]["gdp_per_capita"] = df_ranked[j]["gdp_per_capita"]
        /\ df_ranked[i]["gdi_score"] # df_ranked[j]["gdi_score"]
        /\ df_ranked[i]["final_rank"] # df_ranked[j]["final_rank"]

\* C10: with nothing selected the run shows the error and ends without an
\* exception: no step reads the category of the result.
C10_EmptySelectionRendersNoClassification ==
  (Ran /\ EmptySelection) =>
     /\ st_error # << >>
     /\ exception # "KeyError"

\* The columns a metric may hold in a table that agrees with data on the
\* selected metrics: the column of data if the metric is selected; if not,
\* any column of generated values, or for a longer table the all-zero
\* column and the column of data reversed.
AlternativeColumns(name, active) ==
  IF active THEN {column(data, name)}
  ELSE IF N <= MaxN THEN [1..N -> 0..MaxVal]
  ELSE {[i \in 1..N |-> 0], [i \in 1..N |-> data[N + 1 - i][name]]}

WithMetrics(df, g, m, d) ==
  [i \in 1..Len(df) |->
     [country        |-> df[i]["country"],
      iso_alpha      |-> df[i]["iso_alpha"],
      gdp_per_capita |-> g[i],
      gmi_score      |-> m[i],
      gdi_score      |-> d[i]]]

Classification(df) ==
  [i \in 1..Len(df) |->
     [iso_alpha          |-> df[i]["iso_alpha"],
      composite_rank_sum |-> df[i]["composite_rank_sum"],
      final_rank         |-> df[i]["final_rank"],
      category           |-> df[i]["category"]]]

\* C11: with a non-empty selection, a table with the same identifiers and
\* the same values in the selected metrics, whatever its values in the
\* others, gets the same composite sum, final rank and category in every row.
C11_InactiveMetricsDoNotInfluence ==
  (Ran /\ ~EmptySelection) =>
     \A g \in AlternativeColumns("gdp_per_capita", use_gdp),
        m \in AlternativeColumns("gmi_score", use_gmi),
        d \in AlternativeColumns("gdi_score", use_gdi) :
        Classification(calculate_rankings(WithMetrics(data, g, m, d),
                                          use_gdp, use_gmi, use_gdi).ret)
          = Classification(df_ranked)

\* only GDP is selected, and an unselected metric orders two rows the
\* other way round
C11_Witness ==
  /\ Ran /\ use_gdp /\ ~use_gmi /\ ~use_gdi
  /\ \E i, j \in Rows :
        /\ df_ranked[i]["gdp_rank"] < df_ranked[j]["gdp_rank"]
        /\ df_ranked[i]["gmi_rank"] > df_ranked[j]["gmi_rank"]
        /\ df_ranked[i]["final_rank"] < df_ranked[j]["final_rank"]

=============================================================================
